---- MODULE Spec2Model ----
(***************************************************************************)
(* Model of nexrad_utils.py: the S3 key locator (get_s3_list_by_str,       *)
(* get_s3_list), the composite extractor (get_composite_field) and the     *)
(* two time-series builders (get_composite_from_list,                      *)
(* get_composite_from_s3_list), together with open_nexrad_from_s3.         *)
(*                                                                         *)
(* Strings are sequences of one-character strings, so that formatting,     *)
(* globbing and parsing are computed and not assumed.  Timestamps are      *)
(* seconds since 1970-01-01 00:00:00.                                      *)
(***************************************************************************)
EXTENDS Integers, Sequences, FiniteSets, TLC

VARIABLES
    \* get_composite_from_list / get_composite_from_s3_list / open_nexrad_from_s3
    variant, radar_id, file_list, idx, pc, times, rays, ranges, held, log,
    result, raised,
    \* get_s3_list / get_s3_list_by_str
    op, backend, args, bucket_query, dt_range, hour, key_list, queries,
    answers, lpc,
    \* get_composite_field
    ray, raycomp, cpc

buildVars == <<variant, radar_id, file_list, idx, pc, times, rays, ranges,
               held, log, result, raised>>
listVars == <<op, backend, args, bucket_query, dt_range, hour, key_list,
              queries, answers, lpc>>
compVars == <<ray, raycomp, cpc>>
vars == <<buildVars, listVars, compVars>>

----------------------------------------------------------------------------
(* Bounds of the model *)

\* longest key list handed to the builders
MaxKeys == 3
\* the time window of get_s3_list inputs, in half hours after WindowStart
MaxSlots == 5
\* rays and range bins of the arrays handed to get_composite_field
MaxRays == 2
MaxBins == 2

----------------------------------------------------------------------------
(* Characters and strings *)

Digits == <<"0", "1", "2", "3", "4", "5", "6", "7", "8", "9">>

\* the characters of the model in ASCII order (the order glob sorts by)
Alphabet ==
    <<"*", "-", ".", "/", "0", "1", "2", "3", "4", "5", "6", "7", "8", "9",
      "A", "D", "G", "K", "L", "M", "T", "V", "X", "_",
      "a", "d", "e", "l", "n", "o", "r", "v", "x">>

Ord(c) == CHOOSE i \in 1..Len(Alphabet) : Alphabet[i] = c

IsDigit(c) == \E i \in 1..10 : Digits[i] = c

DigitVal(c) == (CHOOSE i \in 1..10 : Digits[i] = c) - 1

RECURSIVE Flatten(_)
Flatten(ss) == IF ss = <<>> THEN <<>> ELSE Head(ss) \o Flatten(Tail(ss))

\* str(n) zero padded to w digits, as strftime prints a field
RECURSIVE Pad(_, _)
Pad(n, w) == IF w = 0 THEN <<>> ELSE Pad(n \div 10, w - 1) \o <<Digits[(n % 10) + 1]>>

StartsWith(s, p) == Len(s) >= Len(p) /\ SubSeq(s, 1, Len(p)) = p

\* s < t in lexicographic (code point) order
RECURSIVE LexLess(_, _)
LexLess(s, t) ==
    IF t = <<>> THEN FALSE
    ELSE IF s = <<>> THEN TRUE
    ELSE IF Head(s) = Head(t) THEN LexLess(Tail(s), Tail(t))
    ELSE Ord(Head(s)) < Ord(Head(t))

RECURSIVE Sorted(_)
Sorted(S) ==
    IF S = {} THEN <<>>
    ELSE LET m == CHOOSE x \in S : \A y \in S \ {x} : LexLess(x, y)
         IN <<m>> \o Sorted(S \ {m})

\* every sequence over S of length at most n
BoundedSeq(S, n) == UNION {[1..m -> S] : m \in 0..n}

----------------------------------------------------------------------------
(* Calendar: seconds since the epoch <-> civil date and time *)

IsLeap(y) == (y % 4 = 0 /\ y % 100 # 0) \/ y % 400 = 0

DaysInMonth(y, m) ==
    IF m = 2 THEN (IF IsLeap(y) THEN 29 ELSE 28)
    ELSE IF m \in {4, 6, 9, 11} THEN 30 ELSE 31

\* days since 1970-01-01 of the civil date y-m-d (y >= 1970)
DaysFromCivil(y, m, d) ==
    LET yy  == IF m <= 2 THEN y - 1 ELSE y
        era == yy \div 400
        yoe == yy - era * 400
        mp  == (m + 9) % 12
        doy == (153 * mp + 2) \div 5 + d - 1
        doe == yoe * 365 + yoe \div 4 - yoe \div 100 + doy
    IN era * 146097 + doe - 719468

\* the civil date of day z since 1970-01-01 (z >= 0)
CivilFromDays(z) ==
    LET zz  == z + 719468
        era == zz \div 146097
        doe == zz - era * 146097
        yoe == (doe - doe \div 1460 + doe \div 36524 - doe \div 146096) \div 365
        doy == doe - (365 * yoe + yoe \div 4 - yoe \div 100)
        mp  == (5 * doy + 2) \div 153
        d   == doy - (153 * mp + 2) \div 5 + 1
        m   == IF mp < 10 THEN mp + 3 ELSE mp - 9
        y   == yoe + era * 400 + (IF m <= 2 THEN 1 ELSE 0)
    IN [Y |-> y, m |-> m, d |-> d]

\* the fields of pd.Timestamp t
Fields(t) ==
    LET c == CivilFromDays(t \div 86400)
        s == t % 86400
    IN [Y |-> c.Y, m |-> c.m, d |-> c.d,
        H |-> s \div 3600, M |-> (s % 3600) \div 60, S |-> s % 60]

Timestamp(f) ==
    DaysFromCivil(f.Y, f.m, f.d) * 86400 + f.H * 3600 + f.M * 60 + f.S

----------------------------------------------------------------------------
(* Format strings: str.format, strftime and strptime *)

Directives == {"%Y", "%m", "%d", "%H", "%M", "%S"}

S3_FMT ==
    <<"n", "o", "a", "a", "-", "n", "e", "x", "r", "a", "d", "-",
      "l", "e", "v", "e", "l", "2", "/", "%Y", "/", "%m", "/", "%d", "/",
      "{}", "/", "{}", "%Y", "%m", "%d", "_", "%H">>

NEX_FMT == <<"{}", "%Y", "%m", "%d", "_", "%H", "%M", "%S", "_", "V", "0", "6">>

\* fmt.format(*a): the i-th "{}" is replaced by a[i]
RECURSIVE Format(_, _)
Format(fmt, a) ==
    IF fmt = <<>> THEN <<>>
    ELSE IF Head(fmt) = "{}" THEN Head(a) \o Format(Tail(fmt), Tail(a))
    ELSE <<Head(fmt)>> \o Format(Tail(fmt), a)

\* t.strftime(fmt)
RECURSIVE Strftime(_, _)
Strftime(t, fmt) ==
    IF fmt = <<>> THEN <<>>
    ELSE LET f == Fields(t)
             h == Head(fmt)
             out == IF h = "%Y" THEN Pad(f.Y, 4)
                    ELSE IF h = "%m" THEN Pad(f.m, 2)
                    ELSE IF h = "%d" THEN Pad(f.d, 2)
                    ELSE IF h = "%H" THEN Pad(f.H, 2)
                    ELSE IF h = "%M" THEN Pad(f.M, 2)
                    ELSE IF h = "%S" THEN Pad(f.S, 2)
                    ELSE <<h>>
         IN out \o Strftime(t, Tail(fmt))

RECURSIVE Number(_)
Number(ds) == IF ds = <<>> THEN 0 ELSE 10 * Number(SubSeq(ds, 1, Len(ds) - 1)) + DigitVal(ds[Len(ds)])

\* the widths the regular expression of a directive tries, in order
Widths(dv) == IF dv = "%Y" THEN <<4>> ELSE <<2, 1>>

\* does the digit string ds of width w match the directive's expression
Accepts(dv, ds, w) ==
    LET n == Number(ds)
    IN IF dv = "%Y" THEN TRUE
       ELSE IF dv = "%m" THEN (IF w = 2 THEN n \in 1..12 ELSE n \in 1..9)
       ELSE IF dv = "%d" THEN (IF w = 2 THEN n \in 1..31 ELSE n \in 1..9)
       ELSE IF dv = "%H" THEN (IF w = 2 THEN n \in 0..23 ELSE TRUE)
       ELSE (IF w = 2 THEN n \in 0..59 ELSE TRUE)

NoMatch == [ok |-> FALSE]

\* The first match of the format's regular expression at the start of s,
\* alternatives tried in the expression's order with backtracking: the
\* values of the directives and the number of characters consumed.
RECURSIVE Match(_, _, _)
RECURSIVE MatchField(_, _, _, _)
Match(s, fmt, got) ==
    IF fmt = <<>> THEN [ok |-> TRUE, f |-> got, rest |-> s]
    ELSE IF Head(fmt) \in Directives THEN MatchField(s, fmt, got, Widths(Head(fmt)))
    ELSE IF s # <<>> /\ Head(s) = Head(fmt) THEN Match(Tail(s), Tail(fmt), got)
    ELSE NoMatch
MatchField(s, fmt, got, ws) ==
    IF ws = <<>> THEN NoMatch
    ELSE LET w  == Head(ws)
             dv == Head(fmt)
             ds == SubSeq(s, 1, w)
             fits == Len(s) >= w /\ (\A i \in 1..w : IsDigit(s[i])) /\ Accepts(dv, ds, w)
             r  == IF fits
                   THEN Match(SubSeq(s, w + 1, Len(s)), Tail(fmt), got @@ (dv :> Number(ds)))
                   ELSE NoMatch
         IN IF r.ok THEN r ELSE MatchField(s, fmt, got, Tail(ws))

\* pd.to_datetime(s, format=fmt): the timestamp, or NoMatch when s does not
\* match, data remains unconverted, or the fields name no calendar day
ToDatetime(s, fmt) ==
    LET r == Match(s, fmt, <<>>)
    IN IF ~r.ok \/ r.rest # <<>> THEN NoMatch
       ELSE LET g == r.f
                f == [Y |-> g["%Y"], m |-> g["%m"], d |-> g["%d"],
                      H |-> g["%H"], M |-> g["%M"], S |-> g["%S"]]
            IN IF f.d > DaysInMonth(f.Y, f.m) THEN NoMatch
               ELSE [ok |-> TRUE, t |-> Timestamp(f)]

\* os.path.split(p): <<head, tail>>, tail being what follows the last "/"
Split(p) ==
    LET slashes == {i \in 1..Len(p) : p[i] = "/"}
    IN IF slashes = {} THEN <<(<<>>), p>>
       ELSE LET k == CHOOSE i \in slashes : \A j \in slashes : j <= i
            IN <<SubSeq(p, 1, k - 1), SubSeq(p, k + 1, Len(p))>>

Basename(p) == Split(p)[2]

----------------------------------------------------------------------------
(* get_composite_field *)

\* array elements: a number, or nan
Num(v) == [nan |-> FALSE, v |-> v]
NaN == [nan |-> TRUE, v |-> 0]

\* the values the arrays of the model hold
RayValues == {Num(-1001), Num(-1000), Num(1000), Num(1001)}

\* ray[np.logical_or(ray > 1000., ray < -1000.)] = np.nan, on one element
Mask_inclusive(x) == IF ~x.nan /\ (x.v >= 1000 \/ x.v <= -1000) THEN NaN ELSE x
Mask(x) == IF ~x.nan /\ (x.v > 1000 \/ x.v < -1000) THEN NaN ELSE x

Masked(a) == [i \in 1..Len(a) |-> [j \in 1..Len(a[i]) |-> Mask(a[i][j])]]

Max(S) == CHOOSE x \in S : \A y \in S : y <= x

\* np.nanmax(a, axis=0): per column the largest number, nan when it has none
NanMax(a) ==
    [j \in 1..Len(a[1]) |->
        LET col == {a[i][j].v : i \in {k \in 1..Len(a) : ~a[k][j].nan}}
        IN IF col = {} THEN NaN ELSE Num(Max(col))]

\* the radar objects of the model: whether the reflectivity field is there,
\* its rays along the azimuth (ray x range bin), and the range axis
Row(vs) == [j \in 1..Len(vs) |-> Num(vs[j])]
Radars ==
    { [field |-> TRUE,  ray |-> <<Row(<<5, 2000>>), Row(<<7, -1000>>)>>, ranges |-> <<0, 250>>],
      [field |-> TRUE,  ray |-> <<Row(<<1000, 3>>)>>,                    ranges |-> <<0, 500>>],
      [field |-> TRUE,  ray |-> <<Row(<<9>>)>>,                          ranges |-> <<0>>],
      [field |-> FALSE, ray |-> <<>>,                                    ranges |-> <<>>] }

\* get_composite_field(radar, field, azimuth): fails when the display has no
\* 'reflectivity' field, else the composite ray and the display's ranges
get_composite_field(radar) ==
    IF ~radar.field THEN [ok |-> FALSE]
    ELSE [ok |-> TRUE, raycomp |-> NanMax(Masked(radar.ray)), ranges |-> radar.ranges]

Arrays == UNION {[1..r -> [1..b -> RayValues]] : r \in 1..MaxRays, b \in 1..MaxBins}

CompInit == /\ ray \in Arrays
            /\ raycomp = <<>>
            /\ cpc = "call"

\* lines 149-151 on the array the display returned
CompositeField ==
    /\ cpc = "call"
    /\ raycomp' = NanMax(Masked(ray))
    /\ cpc' = "returned"
    /\ UNCHANGED ray
    /\ UNCHANGED <<buildVars, listVars>>

CompIdle == ray = <<>> /\ raycomp = <<>> /\ cpc = "idle"

----------------------------------------------------------------------------
(* The bucket and the files of the model *)

KATX == <<"K", "A", "T", "X">>
KLGX == <<"K", "L", "G", "X">>
Stations == {KATX, KLGX}

V06 == <<"_", "V", "0", "6">>
V06_MDM == <<"_", "V", "0", "6", "_", "M", "D", "M">>

\* 2020-06-30 22:00:00, the first instant of the model's time window
WindowStart == Timestamp([Y |-> 2020, m |-> 6, d |-> 30, H |-> 22, M |-> 0, S |-> 0])

\* the key under which the bucket stores the volume station scanned at t:
\* the partition of S3_FMT, then the file name of NEX_FMT and a suffix
BucketKey(station, t, suffix) ==
    Strftime(t, Format(SubSeq(S3_FMT, 1, 27), <<station, station>>)
                \o Format(SubSeq(NEX_FMT, 1, 8), <<station>>)) \o suffix

ScanA == WindowStart + 5400 + 7
ScanB == WindowStart + 7200 + 251

KeyA == BucketKey(KATX, ScanA, V06)
KeyB == BucketKey(KATX, ScanB, V06)
KeyMDM == BucketKey(KATX, ScanA, V06_MDM)
KeyL == BucketKey(KLGX, ScanA, V06)

\* the scan time a key of the model was stored under
ScanTime(key) == IF key = KeyB THEN ScanB ELSE ScanA

\* the key lists the builders are handed are made of these
BuildKeys == {KeyA, KeyB, KeyMDM}

\* what a key's file holds when it is read: unreadable bytes, or a radar
Contents ==
    {[readable |-> FALSE, field |-> FALSE, ray |-> <<>>, ranges |-> <<>>]}
    \cup {[readable |-> TRUE] @@ r : r \in Radars}

\* pyart.io.read
read(c) == IF c.readable THEN [ok |-> TRUE, radar |-> c] ELSE [ok |-> FALSE]

----------------------------------------------------------------------------
(* get_composite_from_list, get_composite_from_s3_list, open_nexrad_from_s3 *)

NoError == "none"
ParseError == "ValueError: time data does not match format"
ReadError == "read error"
FieldError == "KeyError: reflectivity"
OpenError == "FileNotFoundError"
GetError == "AttributeError: get"
IndexError == "IndexError: list index out of range"
StackError == "ValueError: all the input array dimensions must match"
DimError == "ValueError: conflicting sizes for dimension"

NoTable == [made |-> FALSE]

\* pd.to_datetime(os.path.basename(filename), format=NEX_FMT.format(radar_id))
Stamp(filen, station) ==
    ToDatetime(Basename(Split(filen)[2]), Format(NEX_FMT, <<station>>))

\* One iteration of the loop of get_composite_from_list on file filen
\* holding c: the three lists afterwards, the step that failed and the
\* exception that leaves the loop.
LocalBody_skip(filen, c) ==
    LET stamp == Stamp(filen, radar_id)
        r     == read(c)
        comp  == get_composite_field(r.radar)
    IN IF ~stamp.ok
       THEN [times |-> times, rays |-> rays, ranges |-> ranges,
             step |-> "parse", err |-> NoError]
       ELSE IF ~r.ok
       THEN [times |-> Append(times, stamp.t), rays |-> rays, ranges |-> ranges,
             step |-> "read", err |-> NoError]
       ELSE IF ~comp.ok
       THEN [times |-> Append(times, stamp.t), rays |-> rays, ranges |-> ranges,
             step |-> "extract", err |-> NoError]
       ELSE [times |-> Append(times, stamp.t), rays |-> Append(rays, comp.raycomp),
             ranges |-> Append(ranges, comp.ranges), step |-> "ok", err |-> NoError]
LocalBody(filen, c) ==
    LET stamp == Stamp(filen, radar_id)
        r     == read(c)
        comp  == get_composite_field(r.radar)
    IN IF ~stamp.ok
       THEN [times |-> times, rays |-> rays, ranges |-> ranges,
             step |-> "parse", err |-> ParseError]
       ELSE IF ~r.ok
       THEN [times |-> Append(times, stamp.t), rays |-> rays, ranges |-> ranges,
             step |-> "read", err |-> ReadError]
       ELSE IF ~comp.ok
       THEN [times |-> Append(times, stamp.t), rays |-> rays, ranges |-> ranges,
             step |-> "extract", err |-> FieldError]
       ELSE [times |-> Append(times, stamp.t), rays |-> Append(rays, comp.raycomp),
             ranges |-> Append(ranges, comp.ranges), step |-> "ok", err |-> NoError]

\* The try block of get_composite_from_s3_list on the open file of key
\* filen holding c; whatever it raises is swallowed by "except: pass".
S3Body(filen, c) ==
    LET r     == read(c)
        stamp == Stamp(filen, radar_id)
        comp  == get_composite_field(r.radar)
    IN IF ~r.ok
       THEN [times |-> times, rays |-> rays, ranges |-> ranges, step |-> "read"]
       ELSE IF ~stamp.ok
       THEN [times |-> times, rays |-> rays, ranges |-> ranges, step |-> "parse"]
       ELSE IF ~comp.ok
       THEN [times |-> Append(times, stamp.t), rays |-> rays, ranges |-> ranges,
             step |-> "extract"]
       ELSE [times |-> Append(times, stamp.t), rays |-> Append(rays, comp.raycomp),
             ranges |-> Append(ranges, comp.ranges), step |-> "ok"]

\* The dataset built after the loop: ds['time'], ds['range'] = ranges[0],
\* ds['ref'] = ('time', 'range'), np.vstack(rays)
Dataset_lastaxis(ts, rs, rgs) ==
    IF rgs = <<>> THEN [made |-> FALSE, err |-> IndexError]
    ELSE IF \E i \in 1..Len(rs) : Len(rs[i]) # Len(rs[1])
    THEN [made |-> FALSE, err |-> StackError]
    ELSE IF Len(ts) # Len(rs) \/ Len(rgs[Len(rgs)]) # Len(rs[1])
    THEN [made |-> FALSE, err |-> DimError]
    ELSE [made |-> TRUE, time |-> ts, range |-> rgs[Len(rgs)], ref |-> rs]
Dataset_empty(ts, rs, rgs) ==
    IF rgs = <<>> THEN [made |-> TRUE, time |-> ts, range |-> <<>>, ref |-> rs]
    ELSE IF \E i \in 1..Len(rs) : Len(rs[i]) # Len(rs[1])
    THEN [made |-> FALSE, err |-> StackError]
    ELSE IF Len(ts) # Len(rs) \/ Len(rgs[1]) # Len(rs[1])
    THEN [made |-> FALSE, err |-> DimError]
    ELSE [made |-> TRUE, time |-> ts, range |-> rgs[1], ref |-> rs]
Dataset(ts, rs, rgs) ==
    IF rgs = <<>> THEN [made |-> FALSE, err |-> IndexError]
    ELSE IF \E i \in 1..Len(rs) : Len(rs[i]) # Len(rs[1])
    THEN [made |-> FALSE, err |-> StackError]
    ELSE IF Len(ts) # Len(rs) \/ Len(rgs[1]) # Len(rs[1])
    THEN [made |-> FALSE, err |-> DimError]
    ELSE [made |-> TRUE, time |-> ts, range |-> rgs[1], ref |-> rs]

BuildInit ==
    /\ variant \in {"local", "s3", "open_s3"}
    /\ radar_id \in Stations
    /\ file_list \in BoundedSeq(BuildKeys, MaxKeys)
    /\ variant = "open_s3" => Len(file_list) = 1 /\ radar_id = KATX
    /\ idx = 1
    /\ pc = "loop"
    /\ times = <<>>
    /\ rays = <<>>
    /\ ranges = <<>>
    /\ held = {}
    /\ log = <<>>
    /\ result = NoTable
    /\ raised = NoError

\* lines 158-165: one pass of the loop of get_composite_from_list
LocalIter ==
    /\ variant = "local" /\ pc = "loop" /\ idx <= Len(file_list)
    /\ \E c \in Contents : \E b \in {LocalBody(file_list[idx], c)} :
            /\ times' = b.times
            /\ rays' = b.rays
            /\ ranges' = b.ranges
            /\ log' = Append(log, [key |-> file_list[idx], step |-> b.step, radar |-> c])
            /\ IF b.err = NoError
               THEN idx' = idx + 1 /\ UNCHANGED <<pc, raised>>
               ELSE pc' = "raised" /\ raised' = b.err /\ UNCHANGED idx
    /\ UNCHANGED <<variant, radar_id, file_list, held, result>>
    /\ UNCHANGED <<listVars, compVars>>

\* line 180: s3conn.open(filen, 'rb') enters the with block, or raises
S3Open ==
    /\ variant = "s3" /\ pc = "loop" /\ idx <= Len(file_list)
    /\ \E found \in BOOLEAN :
         IF found
         THEN /\ held' = held \cup {idx}
              /\ pc' = "try"
              /\ UNCHANGED <<log, raised>>
         ELSE /\ pc' = "raised"
              /\ raised' = OpenError
              /\ log' = Append(log, [key |-> file_list[idx], step |-> "open",
                                     radar |-> CHOOSE c \in Contents : ~c.readable])
              /\ UNCHANGED held
    /\ UNCHANGED <<variant, radar_id, file_list, idx, times, rays, ranges, result>>
    /\ UNCHANGED <<listVars, compVars>>

\* lines 181-188: the try block and its "except: pass"
S3Try ==
    /\ variant = "s3" /\ pc = "try"
    /\ \E c \in Contents : \E b \in {S3Body(file_list[idx], c)} :
            /\ times' = b.times
            /\ rays' = b.rays
            /\ ranges' = b.ranges
            /\ log' = Append(log, [key |-> file_list[idx], step |-> b.step, radar |-> c])
    /\ pc' = "exit"
    /\ UNCHANGED <<variant, radar_id, file_list, idx, held, result, raised>>
    /\ UNCHANGED <<listVars, compVars>>

\* the end of the with block of line 180: the file is closed
S3Exit_leak ==
    /\ variant = "s3" /\ pc = "exit"
    /\ held' = IF log[Len(log)].step = "ok" THEN held \ {idx} ELSE held
    /\ idx' = idx + 1
    /\ pc' = "loop"
    /\ UNCHANGED <<variant, radar_id, file_list, times, rays, ranges, log, result, raised>>
    /\ UNCHANGED <<listVars, compVars>>
S3Exit ==
    /\ variant = "s3" /\ pc = "exit"
    /\ held' = held \ {idx}
    /\ idx' = idx + 1
    /\ pc' = "loop"
    /\ UNCHANGED <<variant, radar_id, file_list, times, rays, ranges, log, result, raised>>
    /\ UNCHANGED <<listVars, compVars>>

\* lines 166-170 and 189-193: the dataset is built and returned
BuildDataset ==
    /\ variant \in {"local", "s3"} /\ pc = "loop" /\ idx > Len(file_list)
    /\ LET ds == Dataset(times, rays, ranges)
       IN IF ds.made
          THEN result' = ds /\ pc' = "done" /\ UNCHANGED raised
          ELSE raised' = ds.err /\ pc' = "raised" /\ UNCHANGED result
    /\ UNCHANGED <<variant, radar_id, file_list, idx, times, rays, ranges, held, log>>
    /\ UNCHANGED <<listVars, compVars>>

\* line 138: the temporary file of open_nexrad_from_s3 is created
TempOpen ==
    /\ variant = "open_s3" /\ pc = "loop"
    /\ held' = held \cup {idx}
    /\ pc' = "get"
    /\ UNCHANGED <<variant, radar_id, file_list, idx, times, rays, ranges, log, result, raised>>
    /\ UNCHANGED <<listVars, compVars>>

\* line 139: the key is fetched into the temporary file, or the call raises
S3Get ==
    /\ variant = "open_s3" /\ pc = "get"
    /\ \E fetched \in BOOLEAN :
         IF fetched
         THEN pc' = "read" /\ UNCHANGED raised
         ELSE pc' = "exit" /\ raised' = GetError
    /\ UNCHANGED <<variant, radar_id, file_list, idx, times, rays, ranges, held, log, result>>
    /\ UNCHANGED <<listVars, compVars>>

\* line 140: open_nexrad_file reads the temporary file and its radar is returned
OpenNexradFile ==
    /\ variant = "open_s3" /\ pc = "read"
    /\ \E c \in Contents :
         /\ log' = Append(log, [key |-> file_list[idx],
                                step |-> IF c.readable THEN "ok" ELSE "read", radar |-> c])
         /\ IF c.readable
            THEN result' = [made |-> TRUE, radar |-> c] /\ UNCHANGED raised
            ELSE raised' = ReadError /\ UNCHANGED result
    /\ pc' = "exit"
    /\ UNCHANGED <<variant, radar_id, file_list, idx, times, rays, ranges, held>>
    /\ UNCHANGED <<listVars, compVars>>

\* the end of the with block of line 138: the temporary file is closed, and
\* the function returns or the exception goes on to the caller
TempExit ==
    /\ variant = "open_s3" /\ pc = "exit"
    /\ held' = held \ {idx}
    /\ pc' = IF raised = NoError THEN "done" ELSE "raised"
    /\ UNCHANGED <<variant, radar_id, file_list, idx, times, rays, ranges, log, result, raised>>
    /\ UNCHANGED <<listVars, compVars>>

BuildIdle ==
    /\ variant = "idle" /\ radar_id = KATX /\ file_list = <<>> /\ idx = 1
    /\ pc = "idle" /\ times = <<>> /\ rays = <<>> /\ ranges = <<>> /\ held = {}
    /\ log = <<>> /\ result = NoTable /\ raised = NoError

----------------------------------------------------------------------------
(* get_s3_list_by_str, get_s3_list *)

\* the keys a bucket of the model may hold
BucketKeys == {KeyA, KeyB, KeyMDM, KeyL}

\* does key s match the glob pattern p ("*" matches within one path segment)
RECURSIVE GlobMatch(_, _)
GlobMatch(s, p) ==
    IF p = <<>> THEN s = <<>>
    ELSE IF Head(p) = "*"
    THEN GlobMatch(s, Tail(p)) \/ (s # <<>> /\ Head(s) # "/" /\ GlobMatch(Tail(s), p))
    ELSE s # <<>> /\ Head(s) = Head(p) /\ GlobMatch(Tail(s), Tail(p))

\* s3conn.glob(pattern): the matching keys of the bucket, sorted
glob(pattern) == Sorted({k \in backend : GlobMatch(k, pattern)})

\* pd.date_range(start, end, freq='H')
RECURSIVE date_range_open(_, _)
date_range_open(start, end) ==
    IF start >= end THEN <<>> ELSE <<start>> \o date_range_open(start + 3600, end)
RECURSIVE date_range(_, _)
date_range(start, end) ==
    IF start > end THEN <<>> ELSE <<start>> \o date_range(start + 3600, end)

\* the instants start and end are drawn from
Instants == {WindowStart + 1800 * k : k \in 0..MaxSlots}

Bucket ==
    <<"n", "o", "a", "a", "-", "n", "e", "x", "r", "a", "d", "-",
      "l", "e", "v", "e", "l", "2">>

\* lines 51-55: the query of get_s3_list_by_str
StrQuery_nodate(a) ==
    Flatten(<<Bucket, <<"/">>, a.year, <<"/">>, a.month, <<"/">>, a.day, <<"/">>,
              a.radar_id, <<"/">>, a.radar_id, a.year>>)
    \o (IF a.hhmm.given THEN <<"_">> \o a.hhmm.v ELSE <<>>)
StrQuery(a) ==
    Flatten(<<Bucket, <<"/">>, a.year, <<"/">>, a.month, <<"/">>, a.day, <<"/">>,
              a.radar_id, <<"/">>, a.radar_id, a.year, a.month, a.day>>)
    \o (IF a.hhmm.given THEN <<"_">> \o a.hhmm.v ELSE <<>>)

None == [given |-> FALSE, v |-> <<>>]
Some(v) == [given |-> TRUE, v |-> v]

StrArgs ==
    [year : {<<"2", "0", "2", "0">>},
     month : {<<"0", "6">>, <<"0", "7">>},
     day : {<<"3", "0">>, <<"0", "1">>},
     hhmm : {None, Some(<<"2", "3">>), Some(<<"2", "3", "3", "0">>)},
     radar_id : Stations]

RangeArgs == [start : Instants, end : Instants, radar_id : Stations]

ListInit ==
    /\ op \in {"range", "str"}
    /\ backend \in SUBSET BucketKeys
    /\ args \in (IF op = "range" THEN RangeArgs ELSE StrArgs)
    /\ bucket_query = <<>>
    /\ dt_range = <<>>
    /\ hour = 1
    /\ key_list = <<>>
    /\ queries = <<>>
    /\ answers = <<>>
    /\ lpc = "call"

\* lines 51-60: get_s3_list_by_str
ListByStr ==
    /\ op = "str" /\ lpc = "call"
    /\ LET q == StrQuery(args)
       IN /\ bucket_query' = q
          /\ queries' = Append(queries, q \o <<"*">>)
          /\ answers' = Append(answers, glob(q \o <<"*">>))
          /\ key_list' = glob(q \o <<"*">>)
    /\ lpc' = "returned"
    /\ UNCHANGED <<op, backend, args, dt_range, hour>>
    /\ UNCHANGED <<buildVars, compVars>>

\* lines 92-96: get_s3_list up to its loop
ListSetup ==
    /\ op = "range" /\ lpc = "call"
    /\ key_list' = <<>>
    /\ bucket_query' = Format(S3_FMT, <<args.radar_id, args.radar_id>>)
    /\ dt_range' = date_range(args.start, args.end)
    /\ hour' = 1
    /\ lpc' = "loop"
    /\ UNCHANGED <<op, backend, args, queries, answers>>
    /\ UNCHANGED <<buildVars, compVars>>

\* lines 98-99: one hour of the loop of get_s3_list
ListHour ==
    /\ op = "range" /\ lpc = "loop" /\ hour <= Len(dt_range)
    /\ LET q == Strftime(dt_range[hour], bucket_query) \o <<"*">>
       IN /\ queries' = Append(queries, q)
          /\ answers' = Append(answers, glob(q))
          /\ key_list' = key_list \o glob(q)
    /\ hour' = hour + 1
    /\ UNCHANGED <<op, backend, args, bucket_query, dt_range, lpc>>
    /\ UNCHANGED <<buildVars, compVars>>

\* line 100
ListReturn ==
    /\ op = "range" /\ lpc = "loop" /\ hour > Len(dt_range)
    /\ lpc' = "returned"
    /\ UNCHANGED <<op, backend, args, bucket_query, dt_range, hour, key_list,
                   queries, answers>>
    /\ UNCHANGED <<buildVars, compVars>>

ListIdle ==
    /\ op = "idle" /\ backend = {} /\ args = <<>> /\ bucket_query = <<>>
    /\ dt_range = <<>> /\ hour = 1 /\ key_list = <<>> /\ queries = <<>>
    /\ answers = <<>> /\ lpc = "idle"

----------------------------------------------------------------------------
(* Specifications *)

\* the builders and open_nexrad_from_s3
Init == BuildInit /\ ListIdle /\ CompIdle

Next ==
    \/ LocalIter
    \/ S3Open
    \/ S3Try
    \/ S3Exit
    \/ BuildDataset
    \/ TempOpen
    \/ S3Get
    \/ OpenNexradFile
    \/ TempExit

Spec == Init /\ [][Next]_vars

\* the locator
InitList == ListInit /\ BuildIdle /\ CompIdle

NextList ==
    \/ ListByStr
    \/ ListSetup
    \/ ListHour
    \/ ListReturn

SpecList == InitList /\ [][NextList]_vars

\* get_composite_field
InitComp == CompInit /\ BuildIdle /\ ListIdle

NextComp == CompositeField

SpecComp == InitComp /\ [][NextComp]_vars

----------------------------------------------------------------------------
(* Properties of the builders (specification Spec) *)

Building == variant \in {"local", "s3"}
Ended == pc \in {"done", "raised"}
\* the loop ran over the whole key list
LoopCompleted == Building /\ Ended /\ idx > Len(file_list)

OkEntries == SelectSeq(log, LAMBDA e : e.step = "ok")
SameBins(es) == \A i, j \in 1..Len(es) : Len(es[i].radar.ranges) = Len(es[j].radar.ranges)

\* the table whose rows are the entries es, in their order
TableOf(es) ==
    [made |-> TRUE,
     time |-> [i \in 1..Len(es) |-> ScanTime(es[i].key)],
     range |-> es[1].radar.ranges,
     ref |-> [i \in 1..Len(es) |-> get_composite_field(es[i].radar).raycomp]]

AllOk == Len(log) = Len(file_list) /\ \A i \in 1..Len(log) : log[i].step = "ok"

\* C1 as stated: whenever every key of the list is processed without
\* failure, the builder returns the table of the N keys in key-list order
\* with the first key's range axis (for every N, whatever the bin counts).
C1_AllValidGivesTable ==
    (Building /\ Ended /\ AllOk)
        => (result.made /\ Len(result.time) = Len(file_list) /\ result = TableOf(log))

\* C1 amended: for N >= 1 keys that are all processed without failure and
\* whose profiles have the same number of range bins, the builder returns
\* the table with N times and N rows, row i from the i-th key of the list,
\* and the first key's range axis.
C1_ValidKeysGiveTable ==
    (Building /\ Ended /\ AllOk /\ Len(file_list) >= 1 /\ SameBins(log))
        => (/\ raised = NoError
            /\ result.made
            /\ Len(result.time) = Len(file_list)
            /\ Len(result.ref) = Len(file_list)
            /\ result = TableOf(log)
            /\ \A i \in 1..Len(file_list) : log[i].key = file_list[i])

C1_Witness ==
    /\ Building /\ pc = "done" /\ AllOk
    /\ file_list = <<KeyB, KeyA, KeyB>>
    /\ log[1].radar.ranges # log[2].radar.ranges
    /\ result.range = log[1].radar.ranges

\* C2 as stated: in the remote variant a failure while decoding or
\* extracting is skipped, so that when the loop has run over all keys and
\* some file did not fail (the profiles having equal bin counts) no error
\* is raised and the table holds exactly the non-failing files in order.
C2_S3SkipsFailures ==
    (variant = "s3" /\ LoopCompleted /\ OkEntries # <<>> /\ SameBins(OkEntries))
        => (raised = NoError /\ result.made /\ result = TableOf(OkEntries))

\* C3: in the local variant the first key that fails ends the run: it is the
\* last key touched, its error is the one raised, and no table is returned.
C3_LocalAborts ==
    variant = "local" =>
        \A i \in 1..Len(log) :
            log[i].step # "ok" =>
                /\ i = Len(log)
                /\ idx = i
                /\ pc = "raised"
                /\ raised = (IF log[i].step = "parse" THEN ParseError
                             ELSE IF log[i].step = "read" THEN ReadError
                             ELSE FieldError)
                /\ result = NoTable

C3_Witness ==
    /\ variant = "local" /\ pc = "raised"
    /\ Len(file_list) = 3 /\ Len(log) = 2
    /\ log[1].step = "ok" /\ log[2].step = "read"
    /\ result = NoTable

\* the parse of each key of the model against each station's template
KeyStamp == [k \in BuildKeys |-> [s \in Stations |-> Stamp(k, s)]]

\* C6 as stated: in both variants a key whose base name fails to parse
\* aborts the run with the parse error.
C6_ParseMismatchFatal ==
    Building =>
        \A i \in 1..Len(log) :
            log[i].step = "parse" => (Ended => (pc = "raised" /\ raised = ParseError))

\* C6 amended: a key whose base name does not match the template never
\* contributes a row; in the local variant it aborts the run with the parse
\* error before the file is read, in the remote variant the parse error is
\* swallowed, the key is skipped and the parse error is never raised.
C6_ParseMismatch ==
    Building =>
        /\ result.made =>
              \A r \in 1..Len(result.time) :
                  \E i \in 1..Len(log) :
                      /\ KeyStamp[log[i].key][radar_id].ok
                      /\ KeyStamp[log[i].key][radar_id].t = result.time[r]
        /\ \A i \in 1..Len(log) :
             ~KeyStamp[log[i].key][radar_id].ok =>
                /\ log[i].step \notin {"ok", "extract"}
                /\ variant = "local" =>
                      /\ log[i].step = "parse"
                      /\ i = Len(log) /\ pc = "raised" /\ raised = ParseError
                      /\ result = NoTable
                /\ variant = "s3" =>
                      /\ log[i].step \in {"open", "read", "parse"}
                      /\ raised # ParseError
                      /\ log[i].step = "parse" /\ pc = "raised" => i < Len(log) \/ idx > Len(file_list)

C6_Witness ==
    /\ variant = "s3" /\ pc = "done"
    /\ \E i \in 1..Len(log) : log[i].key = KeyMDM /\ log[i].step = "parse"
    /\ Len(result.time) = Len(log) - 1

\* C7 as stated: after every pass of the loop the three lists have the same
\* length, one element per successfully processed file.
C7_AccumulatorsAligned ==
    (Building /\ pc = "loop")
        => /\ Len(times) = Len(rays)
           /\ Len(rays) = Len(ranges)
           /\ Len(times) = Len(OkEntries)

\* C9: a handle is held only while its key is being processed: at most one
\* at a time, the current key's, and none between keys, on return or on raise.
C9_HandlesReleased ==
    /\ Cardinality(held) <= 1
    /\ held \subseteq {idx}
    /\ pc \in {"loop", "done", "raised"} => held = {}

C9_Witness ==
    /\ variant = "s3" /\ pc = "try" /\ idx = 3 /\ held = {3}
    /\ log[2].step = "extract"

\* C10: a table is returned only when some file was processed successfully;
\* when the loop ends with no successful file (an empty list, or in the
\* remote variant every file skipped) the run raises at ranges[0].
C10_NoTableWithoutSuccess ==
    Building =>
        /\ result.made => OkEntries # <<>>
        /\ (LoopCompleted /\ OkEntries = <<>>) => (pc = "raised" /\ raised = IndexError /\ result = NoTable)

C10_Witness ==
    /\ variant = "s3" /\ pc = "raised" /\ raised = IndexError
    /\ Len(file_list) = 3
    /\ log[1].step = "read" /\ log[2].step = "parse" /\ log[3].step = "extract"
    /\ times # <<>>

----------------------------------------------------------------------------
(* Properties of the locator (specification SpecList) *)

\* the partition of station at instant t, written out field by field
HourPrefix(station, t) ==
    LET f == Fields(t)
    IN Flatten(<<Bucket, <<"/">>, Pad(f.Y, 4), <<"/">>, Pad(f.m, 2), <<"/">>, Pad(f.d, 2),
                 <<"/">>, station, <<"/">>, station, Pad(f.Y, 4), Pad(f.m, 2), Pad(f.d, 2),
                 <<"_">>, Pad(f.H, 2)>>)

\* C4: for start <= end get_s3_list issues floor((end-start)/1h)+1 queries,
\* the k-th being the partition template at start+(k-1)h followed by "*",
\* and returns the concatenation of their results in that order.
C4_HourlyQueries ==
    (op = "range" /\ lpc = "returned" /\ args.start <= args.end)
        => LET n == (args.end - args.start) \div 3600 + 1
           IN /\ Len(queries) = n
              /\ Len(answers) = n
              /\ \A k \in 1..n :
                   /\ queries[k] = HourPrefix(args.radar_id, args.start + (k - 1) * 3600) \o <<"*">>
                   /\ args.start + (k - 1) * 3600 <= args.end
                   /\ answers[k] = glob(queries[k])
              /\ key_list = Flatten(answers)

C4_Witness ==
    /\ op = "range" /\ lpc = "returned"
    /\ (args.end - args.start) % 3600 # 0
    /\ Len(queries) = 3
    /\ key_list = <<KeyA, KeyMDM, KeyB>>

ListedParse(i) == ToDatetime(Basename(key_list[i]), Format(NEX_FMT, <<args.radar_id>>))

SameDay(t) ==
    /\ Fields(t).Y = Number(args.year)
    /\ Fields(t).m = Number(args.month)
    /\ Fields(t).d = Number(args.day)

\* C5 as stated: every key get_s3_list_by_str returns has a base name that
\* parses against the file name template of the station, to a time of the
\* requested day.
C5_ListedKeysParse ==
    (op = "str" /\ lpc = "returned")
        => \A i \in 1..Len(key_list) : ListedParse(i).ok /\ SameDay(ListedParse(i).t)

NamePrefix ==
    Flatten(<<args.radar_id, args.year, args.month, args.day>>)
    \o (IF args.hhmm.given THEN <<"_">> \o args.hhmm.v ELSE <<>>)

Partition == Flatten(<<Bucket, <<"/">>, args.year, <<"/">>, args.month, <<"/">>, args.day,
                       <<"/">>, args.radar_id>>)

\* C5 amended: get_s3_list_by_str returns exactly the keys of the requested
\* partition whose base name starts with station+year+month+day(+_hhmm);
\* such a key parses against the template only if it ends with "_V06" (a
\* key with more text, as "_V06_MDM", is returned and does not parse), and
\* a key that parses does so to a time of the requested day.
C5_ListedKeysHavePrefix ==
    (op = "str" /\ lpc = "returned")
        => /\ \A i \in 1..Len(key_list) :
                /\ StartsWith(Basename(key_list[i]), NamePrefix)
                /\ ListedParse(i).ok => SameDay(ListedParse(i).t)
                /\ ListedParse(i).ok =>
                      LET b == Basename(key_list[i])
                      IN Len(b) >= 4 /\ SubSeq(b, Len(b) - 3, Len(b)) = V06
           /\ {key_list[i] : i \in 1..Len(key_list)}
                = {k \in backend : Split(k)[1] = Partition /\ StartsWith(Split(k)[2], NamePrefix)}

C5_Witness ==
    /\ op = "str" /\ lpc = "returned" /\ args.hhmm.given
    /\ key_list = <<KeyA, KeyMDM>>
    /\ ListedParse(1).ok /\ ~ListedParse(2).ok

----------------------------------------------------------------------------
(* Properties of get_composite_field (specification SpecComp) *)

Abs(v) == IF v < 0 THEN -v ELSE v

\* the numbers of column j of the array whose magnitude is at most lim
Kept(j, lim) == {ray[i][j].v : i \in {k \in 1..Len(ray) : ~ray[k][j].nan /\ Abs(ray[k][j].v) <= lim}}

\* C8 as stated: every value of magnitude >= 1000 is missing, each bin is
\* the maximum of the other values, and no value of magnitude >= 1000 is in
\* the profile.
C8_SaturatedExcluded ==
    cpc = "returned" =>
        /\ Len(raycomp) = Len(ray[1])
        /\ \A j \in 1..Len(raycomp) :
             /\ raycomp[j] = (IF Kept(j, 999) = {} THEN NaN ELSE Num(Max(Kept(j, 999))))
             /\ raycomp[j].nan \/ Abs(raycomp[j].v) < 1000

\* C8 amended: every value of magnitude > 1000 is missing while 1000 and
\* -1000 are kept; the profile has one entry per range bin, the maximum of
\* the kept values of the bin, or nan when the bin keeps none; no value of
\* magnitude > 1000 is in the profile.
C8_ThresholdStrict ==
    cpc = "returned" =>
        /\ Len(raycomp) = Len(ray[1])
        /\ \A j \in 1..Len(raycomp) :
             /\ raycomp[j] = (IF Kept(j, 1000) = {} THEN NaN ELSE Num(Max(Kept(j, 1000))))
             /\ raycomp[j].nan \/ Abs(raycomp[j].v) <= 1000

C8_Witness ==
    /\ cpc = "returned"
    /\ ray = <<Row(<<1001, -1001>>), Row(<<1000, 1001>>)>>
    /\ raycomp = <<Num(1000), NaN>>

====
